---- MODULE Spec2Model ----
(***************************************************************************)
(* Model of analyze.py: the blocking-entry / async reachability analysis   *)
(* over a call graph exported by an indexer.                                *)
(*                                                                         *)
(* A Symbol is a string "<scheme tokens> <descriptor>"; it is modelled by  *)
(* its space-separated prefix tokens (pre) and the parts of its last token,*)
(* the descriptor "<path>/[impl#[T]]<fn>().": the path segments, whether    *)
(* it is a method of an impl block, and the function name.                 *)
(***************************************************************************)
EXTENDS Naturals, Sequences, FiniteSets, TLC

\* ------------------------------------------------------------- bounds
\* The lines of the mains file and the links of the graph, taken together.
MaxInput == 3
\* The elements of a path the model keeps.
MaxPath == 5
\* The value at which the counts of enqueueings and dequeueings stop.
MaxCount == 3

\* ------------------------------------------------------------ symbols
Pre == <<"rust-analyzer", "cargo">>

\* "rust-analyzer cargo cli/main()."
SymA == [pre |-> Pre, path |-> <<"cli">>, impl |-> FALSE, fn |-> "main"]
\* "rust-analyzer cargo conn/impl#[Conn]run()."
SymB == [pre |-> Pre, path |-> <<"conn">>, impl |-> TRUE, fn |-> "run"]
\* "rust-analyzer cargo portable/block_on()."
SymX == [pre |-> Pre, path |-> <<"portable">>, impl |-> FALSE, fn |-> "block_on"]

\* The Symbols of the model, listed in the order of their strings.
SymbolOrder == <<SymA, SymB, SymX>>

Symbols == {SymbolOrder[k] : k \in 1..Len(SymbolOrder)}

\* s.split(' ')[-1]: the last space-separated token, i.e. the descriptor.
trim_symbol(s) == [path |-> s.path, impl |-> s.impl, fn |-> s.fn]

\* Position of a Symbol in the string order (sorted() compares the strings).
Rank(s) == CHOOSE k \in 1..Len(SymbolOrder) : SymbolOrder[k] = s

\* ------------------------------------------------- entry-point lines
\* A line of the mains file "<file>-<rest>": dash says whether it holds a
\* '-', file is the '/'-separated file part without its ".rs" suffix,
\* hasfn says whether the rest holds "fn", fn is the name after it.
\* "src/cli/mod.rs-fn main() {"
LineMainA == [dash |-> TRUE, file |-> <<"src", "cli", "mod">>, hasfn |-> TRUE, fn |-> "main"]
\* "src/conn.rs-    pub fn run(&self) {"
LineRunB == [dash |-> TRUE, file |-> <<"src", "conn">>, hasfn |-> TRUE, fn |-> "run"]
\* "src/gone.rs-fn main() {"
LineGone == [dash |-> TRUE, file |-> <<"src", "gone">>, hasfn |-> TRUE, fn |-> "main"]
\* "fn main() {"
LineNoDash == [dash |-> FALSE, file |-> <<>>, hasfn |-> TRUE, fn |-> "main"]
\* "src/cli/mod.rs-#[tokio::main]"
LineNoFn == [dash |-> TRUE, file |-> <<"src", "cli", "mod">>, hasfn |-> FALSE, fn |-> ""]

Lines == {LineMainA, LineRunB, LineGone, LineNoDash, LineNoFn}

\* split('fn', 1)[-1] in place of [1]: a line without "fn" no longer raises.
MalformedDashOnly(line) == ~line.dash

\* main.split('-', 1) unpacks into two names: ValueError without a '-';
\* split('fn', 1)[1]: IndexError without "fn".
Malformed(line) == ~line.dash \/ ~line.hasfn

RECURSIVE DropSrc(_)
\* filename.replace('src/', ''): every "src" segment followed by '/' goes.
DropSrc(file) ==
    IF Len(file) <= 1 THEN file
    ELSE IF Head(file) = "src" THEN DropSrc(Tail(file))
    ELSE <<Head(file)>> \o DropSrc(Tail(file))

\* stem: "src/" and ".rs" removed, then a trailing "/mod" removed.
Stem(line) ==
    LET s == DropSrc(line.file)
    IN  IF Len(s) > 1 /\ s[Len(s)] = "mod" THEN SubSeq(s, 1, Len(s) - 1) ELSE s

\* Whether the stem's segments end the Symbol's path (the substring tests of
\* lines 56-58, taken segment by segment).
IsSuffix(stem, path) ==
    /\ Len(stem) <= Len(path)
    /\ SubSeq(path, Len(path) - Len(stem) + 1, Len(path)) = stem

\* The match of lines 55-58: "<stem>/impl#" in the symbol and it ends with
\* "]<funcname>().", or it ends with "<stem>/<funcname>().".
Matches(line, symbol) ==
    \/ symbol.impl /\ IsSuffix(Stem(line), symbol.path) /\ symbol.fn = line.fn
    \/ ~symbol.impl /\ IsSuffix(Stem(line), symbol.path) /\ symbol.fn = line.fn

\* A for loop without its else branch: the last node stands for "no match".
FirstMatchNoElse(line, nodelist) ==
    IF \E k \in 1..Len(nodelist) : Matches(line, nodelist[k])
    THEN CHOOSE k \in 1..Len(nodelist) :
            /\ Matches(line, nodelist[k])
            /\ \A j \in 1..(k - 1) : ~Matches(line, nodelist[j])
    ELSE Len(nodelist)

\* The for/else over nodes: the index of the first matching node, 0 if none.
FirstMatch(line, nodelist) ==
    IF \E k \in 1..Len(nodelist) : Matches(line, nodelist[k])
    THEN CHOOSE k \in 1..Len(nodelist) :
            /\ Matches(line, nodelist[k])
            /\ \A j \in 1..(k - 1) : ~Matches(line, nodelist[j])
    ELSE 0

\* -------------------------------------------------------------- state
VARIABLES
    mains,          \* the lines of the mains file (line 36)
    nodes,          \* graph['nodes'], as the list of their symbols (line 40)
    edges,          \* graph['links'], a list of [source, target] (line 41)
    scip_data,      \* the symbols whose signature text holds 'async fn'
    pc,             \* where main() is
    i,              \* index in mains of the line the resolver loop is at
    bad_funcs,      \* line 43
    async_funcs,    \* line 66
    sgraph,         \* line 85
    async_called,   \* line 93: callee -> the caller it was first found from
    wl,             \* line 94
    enq,            \* per Symbol, how often it was put in wl (lines 94, 102)
    deq,            \* per Symbol, how often wl.pop() returned it (line 96)
    danger,         \* line 109
    todo,           \* what is left of sorted(danger) (line 113)
    n,              \* line 116
    path,           \* line 117: its first MaxPath elements
    beyond,         \* the number of elements of path past MaxPath, modulo 2
    missed,         \* the MISSED lines printed (line 63)
    counts,         \* the len(...) lines printed (lines 104-107)
    heads,          \* the violation names printed (line 114)
    paths           \* the paths printed (line 121)

inputs == <<mains, nodes, edges, scip_data>>
outputs == <<missed, counts, heads, paths>>
vars == <<mains, nodes, edges, scip_data, pc, i, bad_funcs, async_funcs, sgraph,
          async_called, wl, enq, deq, danger, todo, n, path, beyond, missed, counts, heads,
          paths>>

\* ------------------------------------------------------------- helpers
SeqsUpTo(S, k) == UNION {[1..m -> S] : m \in 0..k}

Range(f) == {f[x] : x \in DOMAIN f}

\* list(a_set): the elements in the order the set's hashing gives, which the
\* program does not control (string hashes are salted per process).
ListsOf(S) == {f \in [1..Cardinality(S) -> S] : Range(f) = S}

Edge(s, t) == [source |-> s, target |-> t]

\* The lists of nodes the runs are given.
NodeLists == {<<SymA, SymB, SymX>>, <<SymX, SymB>>}

\* The lists of at most k links.  BuildGraph keeps, for each source, its
\* targets in list order, so lists that differ only in how the links of
\* different sources interleave give the same sgraph: one list of each such
\* class is taken, the one with the sources in order.
EdgeLists(k) ==
    {es \in SeqsUpTo({Edge(s, t) : s \in Symbols, t \in Symbols}, k) :
        \A j \in 1..(Len(es) - 1) : Rank(es[j].source) <= Rank(es[j + 1].source)}

\* sgraph.get(s, ())
Callees(g, s) == IF s \in DOMAIN g THEN g[s] ELSE <<>>

RECURSIVE BuildGraphNoSelf(_)
\* The adjacency mapping with the links from a Symbol to itself left out.
BuildGraphNoSelf(es) ==
    IF es = <<>> THEN <<>>
    ELSE LET g == BuildGraphNoSelf(SubSeq(es, 1, Len(es) - 1))
             e == es[Len(es)]
         IN  IF e.source = e.target THEN g
             ELSE (e.source :> Append(Callees(g, e.source), e.target)) @@ g

RECURSIVE BuildGraph(_)
\* Lines 85-87: sgraph.setdefault(source, []).append(target), edge by edge.
BuildGraph(es) ==
    IF es = <<>> THEN <<>>
    ELSE LET g == BuildGraph(SubSeq(es, 1, Len(es) - 1))
             e == es[Len(es)]
         IN  (e.source :> Append(Callees(g, e.source), e.target)) @@ g

\* s = wl[-1] in place of s = wl.pop(): the Symbol stays in the list.
PoppedPeek(w) == w

\* Line 96: what wl.pop() leaves of the list.
Popped(w) == SubSeq(w, 1, Len(w) - 1)

\* How often t was appended to the list before to give the list after.
Appended(before, after, t) ==
    Cardinality({k \in (Len(before) + 1)..Len(after) : after[k] = t})

\* A count c raised by k, stopping at MaxCount.
Counted(c, k) == IF c + k < MaxCount THEN c + k ELSE MaxCount

RECURSIVE VisitNoEnqueue(_, _, _, _)
\* The loop body without line 102: a found callee is recorded, not queued.
VisitNoEnqueue(tgts, s, called, w) ==
    IF tgts = <<>> THEN <<called, w>>
    ELSE LET tgt == Head(tgts)
         IN  IF tgt \notin DOMAIN called
             THEN VisitNoEnqueue(Tail(tgts), s, (tgt :> s) @@ called, w)
             ELSE VisitNoEnqueue(Tail(tgts), s, called, w)

RECURSIVE VisitOverwrite(_, _, _, _)
\* Line 101 outside the test of line 100: the last caller found wins.
VisitOverwrite(tgts, s, called, w) ==
    IF tgts = <<>> THEN <<called, w>>
    ELSE LET tgt == Head(tgts)
         IN  IF tgt \notin DOMAIN called
             THEN VisitOverwrite(Tail(tgts), s, (tgt :> s) @@ called, Append(w, tgt))
             ELSE VisitOverwrite(Tail(tgts), s, (tgt :> s) @@ called, w)

RECURSIVE VisitSwapped(_, _, _, _)
\* async_called[s] = tgt in place of async_called[tgt] = s.
VisitSwapped(tgts, s, called, w) ==
    IF tgts = <<>> THEN <<called, w>>
    ELSE LET tgt == Head(tgts)
         IN  IF tgt \notin DOMAIN called
             THEN VisitSwapped(Tail(tgts), s, (s :> tgt) @@ called, Append(w, tgt))
             ELSE VisitSwapped(Tail(tgts), s, called, w)

RECURSIVE VisitAlwaysEnqueue(_, _, _, _)
\* Line 102 outside the test of line 100: every callee is queued.
VisitAlwaysEnqueue(tgts, s, called, w) ==
    IF tgts = <<>> THEN <<called, w>>
    ELSE LET tgt == Head(tgts)
         IN  IF tgt \notin DOMAIN called
             THEN VisitAlwaysEnqueue(Tail(tgts), s, (tgt :> s) @@ called, Append(w, tgt))
             ELSE VisitAlwaysEnqueue(Tail(tgts), s, called, Append(w, tgt))

RECURSIVE Visit(_, _, _, _)
\* Lines 97-102: the for loop over the callees of s, in list order; the
\* result is <<async_called, wl>> after it.
Visit(tgts, s, called, w) ==
    IF tgts = <<>> THEN <<called, w>>
    ELSE LET tgt == Head(tgts)
         IN  IF tgt \notin DOMAIN called
             THEN Visit(Tail(tgts), s, (tgt :> s) @@ called, Append(w, tgt))
             ELSE Visit(Tail(tgts), s, called, w)

RECURSIVE Sorted(_)
\* sorted(a_set)
Sorted(S) ==
    IF S = {} THEN <<>>
    ELSE LET m == CHOOSE x \in S : \A y \in S : Rank(x) <= Rank(y)
         IN  <<m>> \o Sorted(S \ {m})

TrimAll(p) == [k \in 1..Len(p) |-> trim_symbol(p[k])]

\* ---------------------------------------------------------------- Init
Init ==
    /\ \E k \in 0..MaxInput :
          /\ mains \in [1..k -> Lines]
          /\ edges \in EdgeLists(MaxInput - k)
    /\ nodes \in NodeLists
    /\ scip_data \in SUBSET Symbols
    /\ pc = "resolve"
    /\ i = 1
    /\ bad_funcs = {}
    /\ async_funcs = {}
    /\ sgraph = <<>>
    /\ async_called = <<>>
    /\ wl = <<>>
    /\ enq = [s \in Symbols |-> 0]
    /\ deq = [s \in Symbols |-> 0]
    /\ danger = {}
    /\ todo = <<>>
    /\ n = SymA
    /\ path = <<>>
    /\ beyond = 0
    /\ missed = <<>>
    /\ counts = <<>>
    /\ heads = <<>>
    /\ paths = <<>>

\* ------------------------------------------------------------- actions
\* The check at the inbound side: every seed counts as called from the start.
InitialCalledSeeded == [s \in scip_data \cup bad_funcs |-> s]

\* Line 93: async_called = {}
InitialCalled == <<>>

\* The intersection taken with the unioned set of line 83.
DangerOfSeeds == DOMAIN async_called \cap async_funcs

\* Line 109: danger = async_called.keys() & bad_funcs
Danger == DOMAIN async_called \cap bad_funcs

\* Lines 46-61: a line that names a node: its symbol joins bad_funcs.
ResolveAdd ==
    /\ pc = "resolve" /\ i <= Len(mains)
    /\ ~Malformed(mains[i])
    /\ FirstMatch(mains[i], nodes) # 0
    /\ bad_funcs' = bad_funcs \cup {nodes[FirstMatch(mains[i], nodes)]}
    /\ i' = i + 1
    /\ UNCHANGED <<inputs, enq, deq, pc, async_funcs, sgraph, async_called, wl, danger,
                   todo, n, path,
                   beyond, outputs>>

\* Lines 46-53, 62-63: a line that names no node: MISSED is printed.
ResolveMissed ==
    /\ pc = "resolve" /\ i <= Len(mains)
    /\ ~Malformed(mains[i])
    /\ FirstMatch(mains[i], nodes) = 0
    /\ missed' = Append(missed, <<Stem(mains[i]), mains[i].fn>>)
    /\ i' = i + 1
    /\ UNCHANGED <<inputs, enq, deq, pc, bad_funcs, async_funcs, sgraph, async_called, wl,
                   danger, todo, n, path, beyond, counts, heads, paths>>

\* Lines 47, 51: a line without '-' or without 'fn' raises; main() ends.
ResolveRaise ==
    /\ pc = "resolve" /\ i <= Len(mains)
    /\ Malformed(mains[i])
    /\ pc' = "raised"
    /\ UNCHANGED <<inputs, enq, deq, i, bad_funcs, async_funcs, sgraph, async_called, wl,
                   danger, todo, n, path,
                   beyond, outputs>>

\* Lines 66-94: the seeds, the adjacency mapping and the initial worklist.
Prepare ==
    /\ pc = "resolve" /\ i > Len(mains)
    /\ async_funcs' = scip_data \cup bad_funcs
    /\ sgraph' = BuildGraph(edges)
    /\ async_called' = InitialCalled
    /\ wl' \in ListsOf(scip_data \cup bad_funcs)
    /\ enq' = [s \in Symbols |-> IF s \in scip_data \cup bad_funcs THEN 1 ELSE 0]
    /\ deq' = deq
    /\ pc' = "loop"
    /\ UNCHANGED <<inputs, i, bad_funcs, danger, todo, n, path, beyond,
                   outputs>>

\* Lines 95-102: one iteration of the while loop.
Pop ==
    /\ pc = "loop" /\ wl # <<>>
    /\ LET s == wl[Len(wl)]
           r == Visit(Callees(sgraph, s), s, async_called, Popped(wl))
       IN  /\ async_called' = r[1]
           /\ wl' = r[2]
           /\ deq' = [deq EXCEPT ![s] = Counted(@, 1)]
           /\ enq' = [t \in Symbols |->
                        Counted(enq[t], Appended(Popped(wl), r[2], t))]
    /\ UNCHANGED <<inputs, pc, i, bad_funcs, async_funcs, sgraph, danger, todo, n,
                   path, beyond, outputs>>

\* Lines 104-113: the counts are printed, danger is computed and sorted.
Summary ==
    /\ pc = "loop" /\ wl = <<>>
    /\ counts' = <<Cardinality(bad_funcs), Cardinality(async_funcs),
                   Cardinality(DOMAIN async_called),
                   Cardinality(DOMAIN async_called \cup async_funcs)>>
    /\ danger' = Danger
    /\ todo' = Sorted(Danger)
    /\ pc' = "report"
    /\ UNCHANGED <<inputs, enq, deq, i, bad_funcs, async_funcs, sgraph, async_called, wl, n,
                   path, beyond, missed, heads, paths>>

\* Lines 113-117: the next violation: its name is printed, the walk starts.
ReportNext ==
    /\ pc = "report" /\ todo # <<>>
    /\ heads' = Append(heads, trim_symbol(Head(todo)))
    /\ n' = Head(todo)
    /\ path' = <<Head(todo)>>
    /\ beyond' = 0
    /\ pc' = "walk"
    /\ UNCHANGED <<inputs, enq, deq, i, bad_funcs, async_funcs, sgraph, async_called, wl,
                   danger, todo, missed, counts, paths>>

\* Lines 118-120: one iteration of the walk.  Of a path that outgrows
\* MaxPath the model keeps the first MaxPath elements and the parity of the
\* number of the others.  (A walk that never ends appends until the
\* interpreter is out of memory; the model lets it go on.)
WalkStep ==
    /\ pc = "walk" /\ n \in DOMAIN async_called
    /\ n' = async_called[n]
    /\ IF Len(path) < MaxPath
       THEN path' = Append(path, async_called[n]) /\ beyond' = beyond
       ELSE path' = path /\ beyond' = 1 - beyond
    /\ UNCHANGED <<inputs, enq, deq, pc, i, bad_funcs, async_funcs, sgraph, async_called, wl,
                   danger, todo, outputs>>

\* Line 121: the walk is over, the path is printed.
PrintPath ==
    /\ pc = "walk" /\ n \notin DOMAIN async_called
    /\ paths' = Append(paths, TrimAll(path))
    /\ todo' = Tail(todo)
    /\ pc' = "report"
    /\ UNCHANGED <<inputs, enq, deq, i, bad_funcs, async_funcs, sgraph, async_called, wl,
                   danger, n, path, beyond, missed, counts, heads>>

\* The for loop of line 113 is exhausted: main() returns.
Return ==
    /\ pc = "report" /\ todo = <<>>
    /\ pc' = "done"
    /\ UNCHANGED <<inputs, enq, deq, i, bad_funcs, async_funcs, sgraph, async_called, wl,
                   danger, todo, n, path,
                   beyond, outputs>>

Next ==
    \/ ResolveAdd
    \/ ResolveMissed
    \/ ResolveRaise
    \/ Prepare
    \/ Pop
    \/ Summary
    \/ ReportNext
    \/ WalkStep
    \/ PrintPath
    \/ Return

Spec == Init /\ [][Next]_vars

\* The interpreter runs main() to its end: no step waits on anything.
FairSpec == Spec /\ WF_vars(Next)

\* ------------------------------------------------- what the claims use
\* The worklist loop has finished.
PostLoop == pc \in {"report", "walk", "done"}

\* The call edges of the input graph, as pairs.
EdgePairs == {<<edges[k].source, edges[k].target>> : k \in 1..Len(edges)}

\* The exemption sets the claims range over: sets of trimmed display forms.
ExemptionSets == SUBSET {trim_symbol(s) : s \in Symbols}

RECURSIVE ChainClosure(_, _, _, _)
\* The Symbols at the end of a chain of at most k more edges that starts in
\* seeds \cup R and has no Symbol with a trimmed form in ex as the target of
\* an edge.
ChainClosure(R, seeds, ex, k) ==
    IF k = 0 THEN R
    ELSE ChainClosure(
            R \cup {e[2] : e \in {d \in EdgePairs :
                                    /\ d[1] \in seeds \cup R
                                    /\ trim_symbol(d[2]) \notin ex}},
            seeds, ex, k - 1)

\* The targets of the chains of one or more non-exempted edges from seeds.
ChainReached(seeds, ex) == ChainClosure({}, seeds, ex, Cardinality(Symbols))

\* A line that splits into its fields: it has a '-' and, after it, "fn".
WellFormed(line) == line.dash /\ line.hasfn

\* The nodes a line names.
Named(line) == {k \in 1..Len(nodes) : Matches(line, nodes[k])}

\* The lines of ms that name a node of the graph.
Resolvable(ms) == {k \in 1..Len(ms) : WellFormed(ms[k]) /\ Named(ms[k]) # {}}

\* The lines of ms that are well formed and name no node of the graph.
Unresolved(ms) == {k \in 1..Len(ms) : WellFormed(ms[k]) /\ Named(ms[k]) = {}}

\* The original blocking entries of the lines ms: for each line that names
\* nodes, the first of them.
EntriesOf(ms) ==
    {nodes[CHOOSE k \in Named(ms[j]) : \A m \in Named(ms[j]) : k <= m] :
        j \in Resolvable(ms)}

RECURSIVE MissedOf(_)
\* The MISSED diagnostics of the lines ms, in order.
MissedOf(ms) ==
    IF ms = <<>> THEN <<>>
    ELSE LET front == SubSeq(ms, 1, Len(ms) - 1)
             last == ms[Len(ms)]
         IN  IF Len(ms) \in Unresolved(ms)
             THEN Append(MissedOf(front), <<Stem(last), last.fn>>)
             ELSE MissedOf(front)

\* The list ms without its k-th line.
Without(ms, k) == SubSeq(ms, 1, k - 1) \o SubSeq(ms, k + 1, Len(ms))

\* The violations of the inputs with ms as the entry-point lines.
ViolationsOf(ms) == ChainReached(scip_data \cup EntriesOf(ms), {}) \cap EntriesOf(ms)

NoRepeat(p) == \A j, k \in 1..Len(p) : j # k => p[j] # p[k]

\* ------------------------------------------------------------- claims
\* C1: when the worklist loop has finished, the keys of the predecessor map
\* are exactly the Symbols at the end of a chain of one or more call edges
\* that starts at a seed and has no exempted Symbol as the target of an
\* edge, whatever the exemption set.
C1_ReachedIsExemptFreeClosure ==
    PostLoop =>
        \A ex \in ExemptionSets :
            DOMAIN async_called = ChainReached(scip_data \cup bad_funcs, ex)

\* The inputs of the scenario "entry calls async function".
ScenarioSingleEdge ==
    /\ mains = <<LineMainA>>
    /\ nodes = <<SymA, SymB, SymX>>
    /\ scip_data = {SymB}
    /\ edges = <<Edge(SymA, SymB)>>

\* C2: the violation set is the reached set intersected with the original
\* blocking entries (the Symbols the lines resolved to, before the union
\* of line 83): only such Symbols are printed as violations, all of them
\* are once the report is done, and in the single-edge scenario the reached
\* set is {B} with predecessor A and nothing is reported.
C2_ViolationsAreReachedEntries ==
    PostLoop =>
        /\ danger = DOMAIN async_called \cap EntriesOf(mains)
        /\ \A k \in 1..Len(heads) :
              \E v \in DOMAIN async_called \cap EntriesOf(mains) :
                  heads[k] = trim_symbol(v)
        /\ pc = "done" =>
              heads = TrimAll(Sorted(DOMAIN async_called \cap EntriesOf(mains)))
        /\ ScenarioSingleEdge =>
              /\ async_called = (SymB :> SymA)
              /\ danger = {}
              /\ heads = <<>>

\* C2's case: a finished report in which a reached Symbol is a violation and
\* another reached Symbol, a seed that is no original entry, is not.
C2_Witness ==
    /\ pc = "done"
    /\ heads # <<>>
    /\ \E t \in DOMAIN async_called : t \in async_funcs /\ t \notin danger

\* The inputs of the scenario "exempted bridge", whose exemption set is {X}.
ScenarioBridge ==
    /\ mains = <<LineMainA>>
    /\ nodes = <<SymA, SymB, SymX>>
    /\ scip_data = {SymB}
    /\ edges = <<Edge(SymA, SymX), Edge(SymX, SymB)>>

\* C3: whatever the exemption set, no Symbol whose trimmed display form is
\* in it is ever a key of the predecessor map or in the work queue as a
\* found callee, and in the bridge scenario, whose exemption set is {X},
\* the reached set stays empty.
C3_ExemptedNeverReached ==
    /\ \A ex \in ExemptionSets :
          \A t \in DOMAIN async_called : trim_symbol(t) \notin ex
    /\ ScenarioBridge => DOMAIN async_called = {}

\* C4: while a witness path is built and when it is printed, its first
\* element is the violation, it holds no Symbol twice, and once the walk
\* has stopped its last element is in mustAsync or has no predecessor.
C4_WitnessPathWellFormed ==
    pc = "walk" =>
        /\ path[1] = Head(todo)
        /\ NoRepeat(path)
        /\ n \notin DOMAIN async_called =>
              \/ path[Len(path)] \in async_funcs
              \/ path[Len(path)] \notin DOMAIN async_called

\* C5: the reconstruction of the witness paths terminates: a report that has
\* started is eventually completed.
C5_ReportCompletes == (pc = "report") ~> (pc = "done")

\* The inputs of the scenario "entry reaches itself through async".
ScenarioThroughAsync ==
    /\ mains = <<LineMainA>>
    /\ nodes = <<SymA, SymB, SymX>>
    /\ scip_data = {SymB}
    /\ edges = <<Edge(SymA, SymB), Edge(SymB, SymA)>>

\* C6: when the predecessor of a violation is declared async, the walk stops
\* there: the path never grows beyond [violation, predecessor]; and in the
\* scenario the run ends with predecessor[B] = A, predecessor[A] = B,
\* violations {A}, and the path of A is never longer than [A, B].
C6_WalkStopsAtAsyncPredecessor ==
    /\ pc = "walk" /\ async_called[path[1]] \in scip_data =>
          \/ path = <<path[1]>>
          \/ path = <<path[1], async_called[path[1]]>>
    /\ PostLoop /\ ScenarioThroughAsync =>
          /\ async_called = (SymA :> SymB) @@ (SymB :> SymA)
          /\ danger = {SymA}
          /\ pc = "walk" => path \in {<<SymA>>, <<SymA, SymB>>}
          /\ pc = "done" => paths = <<TrimAll(<<SymA, SymB>>)>>

\* C7 as stated: an original blocking entry that is called by no seed or
\* reached Symbol other than itself is not a violation.
C7_SelfReachedNotFlagged ==
    PostLoop =>
        \A a \in bad_funcs :
            (\A s \in async_funcs \cup DOMAIN async_called :
                <<s, a>> \in EdgePairs => s = a)
            => a \notin danger

\* C7, amended: an original blocking entry that no seed or reached Symbol,
\* itself included, calls is not a violation; one that calls itself is.
C7_UncalledNotFlagged ==
    PostLoop =>
        \A a \in bad_funcs :
            /\ (\A s \in async_funcs \cup DOMAIN async_called :
                    <<s, a>> \notin EdgePairs)
               => a \notin danger
            /\ <<a, a>> \in EdgePairs => a \in danger

\* C7's case: the loop is over, a blocking entry has called something, so the
\* reached set is not empty, and nothing has called it: it is no violation.
C7_Witness ==
    /\ pc = "report"
    /\ \E a \in bad_funcs :
          /\ a \notin danger
          /\ \E t \in DOMAIN async_called : async_called[t] = a

\* C8: the reached set and the violation set at the end of the worklist
\* loop are functions of the inputs alone (the entry lines, the nodes, the
\* signatures and the edges), whatever the order the queue was worked in.
C8_ReachedSetIsOrderIndependent ==
    PostLoop =>
        /\ DOMAIN async_called = ChainReached(scip_data \cup EntriesOf(mains), {})
        /\ danger = ViolationsOf(mains)

\* C8's case: the loop is over and a reached Symbol has, besides its
\* recorded predecessor, which is a seed, another seed that calls it: the
\* order of the initial queue chose between them.
C8_Witness ==
    /\ PostLoop
    /\ \E t \in DOMAIN async_called :
          \E s \in async_funcs :
              /\ s # async_called[t]
              /\ async_called[t] \in async_funcs
              /\ <<s, t>> \in EdgePairs

\* C9: a well-formed line that names no node is not fatal: it is printed as
\* MISSED and adds nothing to bad_funcs, the run is only ever ended early by
\* a malformed line, and the violation set is the one of the same inputs
\* without that line.
C9_UnresolvedIsSkipped ==
    /\ pc # "raised" =>
          LET seen == SubSeq(mains, 1, i - 1)
          IN  /\ missed = MissedOf(seen)
              /\ bad_funcs = EntriesOf(seen)
    /\ pc = "raised" => ~WellFormed(mains[i])
    /\ PostLoop =>
          \A k \in Unresolved(mains) : danger = ViolationsOf(Without(mains, k))

\* C9's case: the report is done, a line was MISSED, and a line after it was
\* resolved to an entry that is a violation.
C9_Witness ==
    /\ pc = "report"
    /\ missed # <<>>
    /\ danger # {}
    /\ 1 \in Unresolved(mains)

\* C10: a line without '-' or without "fn" ends the run at that line: no
\* line after a malformed one is ever processed, the adjacency mapping, the
\* work queue and the predecessor map are never built, and neither counts
\* nor violations are printed.
C10_MalformedLineIsFatal ==
    /\ pc # "raised" =>
          \A k \in 1..(IF pc = "resolve" THEN i - 1 ELSE Len(mains)) :
              WellFormed(mains[k])
    /\ pc = "raised" =>
          /\ ~WellFormed(mains[i])
          /\ \A k \in 1..(i - 1) : WellFormed(mains[k])
          /\ sgraph = <<>> /\ wl = <<>> /\ async_called = <<>>
          /\ counts = <<>> /\ heads = <<>> /\ paths = <<>>
          /\ ~ENABLED Next

\* C10's case: the run has ended at a malformed second line, after a first
\* line that was MISSED.
C10_Witness ==
    /\ pc = "raised"
    /\ i = 2
    /\ missed # <<>>
    /\ ~mains[i].hasfn

\* What a step of the worklist loop lowers: the length of the queue plus the
\* number of Symbols with no predecessor recorded.
LoopMeasure == Len(wl) + Cardinality(Symbols \ DOMAIN async_called)

\* C11: the worklist loop terminates under every order of the queue, for
\* graphs with cycles, self-call edges and repeated edges: every step taken
\* in the loop either leaves it, with the queue empty, or lowers the natural
\* number LoopMeasure, so no run stays in the loop.
C11_LoopTerminates ==
    [][pc = "loop" =>
          \/ wl = <<>> /\ pc' = "report"
          \/ wl # <<>> /\ pc' = "loop" /\ LoopMeasure' < LoopMeasure]_vars

\* The same as a liveness property of FairSpec: a loop that has started
\* reaches the summary.
LoopEventuallyEnds == (pc = "loop") ~> (pc = "report")

\* C11's case: the loop has ended on a graph in which a reached Symbol calls
\* itself and two reached Symbols call each other.
C11_Witness ==
    /\ pc = "report"
    /\ \E s \in DOMAIN async_called : <<s, s>> \in EdgePairs
    /\ \E s, t \in DOMAIN async_called :
          s # t /\ <<s, t>> \in EdgePairs /\ <<t, s>> \in EdgePairs

\* The loop has been set up: the queue and its counts are in use.
LoopStarted == pc \in {"loop", "report", "walk", "done"}

\* How often s is in the list w.
Occurrences(w, s) == Cardinality({k \in 1..Len(w) : w[k] = s})

\* C12 as stated: counting the initial enqueueing of the seeds, no Symbol
\* enters the work queue more than once or leaves it more than once.
C12_EnqueuedAtMostOnce ==
    \A s \in Symbols : enq[s] <= 1 /\ deq[s] <= 1

\* C12, amended: a Symbol enters the queue once if it is a seed and once
\* more when it is found as a callee, which happens at most once (when its
\* predecessor is recorded): at most twice for a seed, at most once for any
\* other Symbol; it leaves the queue as often as it entered it.
C12_EnqueuedOncePerRole ==
    LoopStarted =>
        \A s \in Symbols :
            /\ enq[s] = (IF s \in async_funcs THEN 1 ELSE 0)
                        + (IF s \in DOMAIN async_called THEN 1 ELSE 0)
            /\ enq[s] = deq[s] + Occurrences(wl, s)

\* C12's case: the loop is over and a seed that was found as a callee has
\* been in the queue twice and was worked twice.
C12_Witness ==
    /\ pc = "report"
    /\ \E s \in async_funcs : enq[s] = 2 /\ deq[s] = 2

RECURSIVE Ancestors(_, _)
\* The Symbols met by following at most k predecessor links from t, t itself
\* only if a link leads back to it.
Ancestors(t, k) ==
    IF k = 0 \/ t \notin DOMAIN async_called THEN {}
    ELSE {async_called[t]} \cup Ancestors(async_called[t], k - 1)

RECURSIVE ReachesSeed(_, _)
\* Following at most k predecessor links from t leads to a seed.
ReachesSeed(t, k) ==
    /\ k > 0
    /\ t \in DOMAIN async_called
    /\ \/ async_called[t] \in async_funcs
       \/ ReachesSeed(async_called[t], k - 1)

\* C13 as stated: the predecessor map is a forest in every state: no Symbol
\* is its own predecessor and no chain of predecessor links comes back to
\* the Symbol it started from.
C13_PredecessorMapIsForest ==
    \A t \in DOMAIN async_called : t \notin Ancestors(t, Cardinality(Symbols))

\* C13, amended: every cycle of the predecessor map goes through a seed:
\* from every recorded Symbol the predecessor links lead to a seed before
\* any Symbol is met twice, and a Symbol that is its own predecessor is a
\* seed that calls itself.
C13_CyclesOnlyThroughSeeds ==
    \A t \in DOMAIN async_called :
        /\ ReachesSeed(t, Cardinality(Symbols \ async_funcs) + 1)
        /\ async_called[t] = t => t \in async_funcs /\ <<t, t>> \in EdgePairs

\* C13's case: the loop is over and two Symbols are each other's
\* predecessor, as in the scenario "entry reaches itself through async".
C13_Witness ==
    /\ pc = "report"
    /\ \E s, t \in DOMAIN async_called :
          s # t /\ async_called[s] = t /\ async_called[t] = s

\* C14: the predecessor map is write-once: no step changes or removes an
\* entry that is recorded; a step only adds entries.
C14_PredecessorWriteOnce ==
    [][\A t \in DOMAIN async_called :
          /\ t \in DOMAIN async_called'
          /\ async_called'[t] = async_called[t]]_vars

\* C14's case: the Symbol about to be worked calls a Symbol whose recorded
\* predecessor is another Symbol.
C14_Witness ==
    /\ pc = "loop" /\ wl # <<>>
    /\ \E k \in 1..Len(Callees(sgraph, wl[Len(wl)])) :
          LET t == Callees(sgraph, wl[Len(wl)])[k]
          IN  t \in DOMAIN async_called /\ async_called[t] # wl[Len(wl)]

\* C15: every entry predecessor[t] = s is a call edge (s, t) of the input
\* graph whose caller s is a seed or has a predecessor itself, so each
\* element of a witness path is called by the element after it.
C15_PredecessorIsTaintedCaller ==
    /\ \A t \in DOMAIN async_called :
          /\ <<async_called[t], t>> \in EdgePairs
          /\ async_called[t] \in async_funcs \cup DOMAIN async_called
    /\ pc = "walk" =>
          \A k \in 1..(Len(path) - 1) : <<path[k + 1], path[k]>> \in EdgePairs

\* C15's case: a walk has gone from a violation over its caller to the
\* caller of that one, three different Symbols.
C15_Witness ==
    /\ pc = "walk"
    /\ Len(path) = 3
    /\ NoRepeat(path)

RECURSIVE TargetsIn(_, _)
\* The targets of the links of es whose source is s, in the order of es.
TargetsIn(es, s) ==
    IF es = <<>> THEN <<>>
    ELSE LET front == TargetsIn(SubSeq(es, 1, Len(es) - 1), s)
             e == es[Len(es)]
         IN  IF e.source = s THEN Append(front, e.target) ELSE front

RECURSIVE FirstOccurrences(_)
\* The list es without the links that repeat an earlier one.
FirstOccurrences(es) ==
    IF es = <<>> THEN <<>>
    ELSE LET front == SubSeq(es, 1, Len(es) - 1)
         IN  IF \E k \in 1..Len(front) : front[k] = es[Len(es)]
             THEN FirstOccurrences(front)
             ELSE Append(FirstOccurrences(front), es[Len(es)])

RECURSIVE RunLoop(_, _, _)
\* The predecessor map the loop of lines 95-102 ends with, from the map
\* called and the queue w, on the adjacency mapping g.
RunLoop(called, w, g) ==
    IF w = <<>> THEN called
    ELSE LET s == w[Len(w)]
             r == Visit(Callees(g, s), s, called, Popped(w))
         IN  RunLoop(r[1], r[2], g)

\* The predecessor maps a run on the links es can end with, one for each
\* order of the initial queue.
Outcomes(es) ==
    {RunLoop(InitialCalled, w, BuildGraph(es)) : w \in ListsOf(async_funcs)}

====
